---- MODULE Spec2Model ----
(***************************************************************************)
(* McManamon block-correlation disparity (src/src/mcmanamon.rs).           *)
(*                                                                         *)
(* One behaviour is one call of McManamon::compute on one stereo frame,    *)
(* with an engine built by McManamon::new from one Params record.  The     *)
(* frame and the parameters are chosen in Init and never change.           *)
(*                                                                         *)
(* f32 values are modelled exactly: intensities are small naturals, so     *)
(* every criterion is an integer, and a disparity value is a rational      *)
(* <<numerator, denominator>> in lowest terms with a positive denominator. *)
(* Arithmetic on usize that would go below zero is a panic (the overflow   *)
(* checks of the test profile; for the capacity of the criterion vector    *)
(* the wrapped value is refused by Vec::with_capacity as well).            *)
(* A read outside an image is a panic too.                                *)
(***************************************************************************)
EXTENDS Integers, Sequences, FiniteSets

VARIABLES
    self,                   \* the McManamon engine: params and the two window ranges
    frame,                  \* the StereoFrame: width, height, left, right
    pc,                     \* position in compute
    disp_map,               \* the DisparityMap: data, min_disp, max_disp
    written,                \* the cells disp_map.put was called on
    min_dyn_disp,           \* active search range, lower end
    max_dyn_disp,           \* active search range, upper end (exclusive)
    min_dyn_disp_history,   \* per row, min_dyn_disp while the row was swept
    max_dyn_disp_history,   \* per row, max_dyn_disp while the row was swept
    min_disp,               \* whole-map trackers
    max_disp,
    below_right_col_crits,  \* [column][d] -> Option<f32>
    below_stored_row,       \* per column, the row whose sweep stored its entries last
    y,                      \* current row
    x,                      \* current column
    min_disp_this_row,      \* per-row trackers
    max_disp_this_row,
    left_crits,             \* [d] -> Option<CritTripple>
    pixel                   \* locals of the loop body at the pixel processed last

vars == <<self, frame, pc, disp_map, written, min_dyn_disp, max_dyn_disp,
          min_dyn_disp_history, max_dyn_disp_history, min_disp, max_disp,
          below_right_col_crits, below_stored_row, y, x, min_disp_this_row,
          max_disp_this_row, left_crits, pixel>>

----------------------------------------------------------------------------
(* Bounds of the model *)

\* frame.width()
ImgW == 11
\* frame.height()
ImgH == 8
\* largest max_disparity
MaxDisp == 4
\* largest dyn_disparity_threshold
MaxThr == 2
\* the images are the textures numbered 0 .. MaxTexture
MaxTexture == 4

----------------------------------------------------------------------------
(* Exact arithmetic standing for f32 *)

Abs(a) == IF a < 0 THEN -a ELSE a

RECURSIVE GCD(_, _)
GCD(a, b) == IF b = 0 THEN a ELSE GCD(b, a % b)

\* n/d in lowest terms, d > 0
Rat(n, d) ==
    LET g == GCD(Abs(n), d)
    IN  <<n \div g, d \div g>>

FromInt(k) == <<k, 1>>

RLess(a, b) == a[1] * b[2] < b[1] * a[2]

RLeq(a, b) == a[1] * b[2] <= b[1] * a[2]

RSub(a, b) == Rat(a[1] * b[2] - b[1] * a[2], a[2] * b[2])

RAbs(a) == <<Abs(a[1]), a[2]>>

\* f32::floor and f32::ceil, as integers
Floor(a) == a[1] \div a[2]

Ceil(a) == -((-a[1]) \div a[2])

\* Option<T>: None is the empty sequence, Some(v) is <<v>>
None == <<>>

Some(v) == <<v>>

Unwrap(o) == o[1]

RECURSIVE SumSeq(_)
SumSeq(s) == IF s = <<>> THEN 0 ELSE Head(s) + SumSeq(Tail(s))

----------------------------------------------------------------------------
(* McManamon::new *)

\* std::ops::Range<isize> start..end, end exclusive
Range(start, end) == [start |-> start, end |-> end]

RangeLen(r) == IF r.end > r.start THEN r.end - r.start ELSE 0

\* isize division truncates toward zero: (0 - 1) / 2 = 0
SemiExtent(size) == IF size = 0 THEN 0 ELSE (size - 1) \div 2

New(params) ==
    [params |-> params,
     corr_window_x_range |->
        Range(-SemiExtent(params.correlation_window_size[1]),
              SemiExtent(params.correlation_window_size[1]) + 1),
     corr_window_y_range |->
        Range(-SemiExtent(params.correlation_window_size[2]),
              SemiExtent(params.correlation_window_size[2]) + 1)]

----------------------------------------------------------------------------
(* Pixel buffers *)

Cells == (0 .. ImgW - 1) \X (0 .. ImgH - 1)

\* The images are textures, and a state holds an image as the number of its
\* texture and its row step.  Texture n repeats three intensities along a row,
\* each row `step` places further along them than the row above; the
\* intensities are the base-3 digits of n.
Intensity(n, phase) == (n \div (3 ^ phase)) % 3

\* GrayFloatImage::get; there is no pixel outside the image
Get(img, px, py) ==
    CASE 0 <= px /\ px < ImgW /\ 0 <= py /\ py < ImgH ->
            Intensity(img.texture, (px + img.step * py) % 3)

\* |left(xi, yj) - right(xi - d, yj)|
AbsDiff(f, xi, yj, d) == Abs(Get(f.left, xi, yj) - Get(f.right, xi - d, yj))

----------------------------------------------------------------------------
(* The correlation criterion *)

CritTripple(total, left_col, right_col) ==
    [total |-> total, left_col |-> left_col, right_col |-> right_col]

\* the accumulator that window column offset i is added to in get_criterion
CritBranch(m, i) ==
    IF i = m.corr_window_x_range.start THEN "left_col"
    ELSE IF i = m.corr_window_x_range.end - 1 THEN "right_col"
    ELSE "middle"

\* what one accumulator of get_criterion holds after the two nested loops
CritAccumulate(m, f, px, py, d, branch) ==
    LET xr == m.corr_window_x_range
        yr == m.corr_window_y_range
        nx == RangeLen(xr)
        ny == RangeLen(yr)
        I(k) == xr.start + ((k - 1) % nx)
        J(k) == yr.start + ((k - 1) \div nx)
    IN  SumSeq([k \in 1 .. nx * ny |->
                  IF CritBranch(m, I(k)) = branch
                  THEN AbsDiff(f, px + I(k), py + J(k), d)
                  ELSE 0])

get_criterion(m, f, px, py, d) ==
    LET middle == CritAccumulate(m, f, px, py, d, "middle")
        left_col == CritAccumulate(m, f, px, py, d, "left_col")
        right_col == CritAccumulate(m, f, px, py, d, "right_col")
    IN  CritTripple(middle + left_col + right_col, left_col, right_col)

\* the cell the window loses at its far edge when it moves up by one row
OldCrit(m, f, px, py, d) ==
    AbsDiff(f, px + m.corr_window_x_range.end - 1,
               py + m.corr_window_y_range.end, d)

\* the sum of one window column over the rows of the window
ColumnCrit(m, f, xi, py, d) ==
    LET yr == m.corr_window_y_range
    IN  SumSeq([k \in 1 .. RangeLen(yr) |->
                  AbsDiff(f, xi, py + yr.start + (k - 1), d)])

\* right_col as it stands after the iteration j = corr_window_y_range.start
NewCrit(m, f, px, py, d) ==
    AbsDiff(f, px + m.corr_window_x_range.end - 1,
               py + m.corr_window_y_range.start, d)

FastTotal(left_crit_tripple, below_right_col_crit, new_crit, old_crit) ==
    left_crit_tripple.total - left_crit_tripple.left_col
        + below_right_col_crit + new_crit - old_crit

get_criterion_fast(m, f, px, py, d, left_crit_tripple, below_right_col_crit) ==
    LET old_crit == OldCrit(m, f, px, py, d)
        left_col == ColumnCrit(m, f, px + m.corr_window_x_range.start, py, d)
        right_col == ColumnCrit(m, f, px + m.corr_window_x_range.end - 1, py, d)
        new_crit == NewCrit(m, f, px, py, d)
    IN  CritTripple(
            FastTotal(left_crit_tripple, below_right_col_crit, new_crit, old_crit),
            left_col, right_col)

\* the left-image coordinates get_criterion reads: the whole window
CritReads(m, px, py) ==
    {<<px + i, py + j>> :
        i \in m.corr_window_x_range.start .. m.corr_window_x_range.end - 1,
        j \in m.corr_window_y_range.start .. m.corr_window_y_range.end - 1}

\* the left-image coordinates get_criterion_fast reads: the cell of old_crit,
\* then the leftmost and the rightmost window column
FastReads(m, px, py) ==
    {<<px + m.corr_window_x_range.end - 1, py + m.corr_window_y_range.end>>}
        \cup {<<px + i, py + j>> :
                 i \in {m.corr_window_x_range.start, m.corr_window_x_range.end - 1},
                 j \in m.corr_window_y_range.start .. m.corr_window_y_range.end - 1}

\* a coordinate GrayFloatImage::get can serve
InImage(f, c) == 0 <= c[1] /\ c[1] < f.width /\ 0 <= c[2] /\ c[2] < f.height

----------------------------------------------------------------------------
(* The body of the column loop of compute *)

\* "If bottom row or first pixel in row use slow method"
UseSlow(left_crits_copy, below_right_cols_copy, d) ==
    left_crits_copy[d] = None \/ below_right_cols_copy[d] = None

\* crit_tripple for candidate d
CritFor(m, f, px, py, d, left_crits_copy, below_right_cols_copy) ==
    IF UseSlow(left_crits_copy, below_right_cols_copy, d)
    THEN get_criterion(m, f, px, py, d)
    ELSE get_criterion_fast(m, f, px, py, d,
                            Unwrap(left_crits_copy[d]),
                            Unwrap(below_right_cols_copy[d]))

\* the left-image coordinates read for candidate d; the right image is read
\* d columns to the left of each
ReadsFor(m, px, py, d, left_crits_copy, below_right_cols_copy) ==
    IF UseSlow(left_crits_copy, below_right_cols_copy, d)
    THEN CritReads(m, px, py)
    ELSE FastReads(m, px, py)

\* every read of the candidates min_dyn .. max_dyn - 1 is inside the images
ReadsInside(m, f, px, py, min_dyn, max_dyn, left_crits_copy, below_right_cols_copy) ==
    \A d \in min_dyn .. max_dyn - 1 :
        \A c \in ReadsFor(m, px, py, d, left_crits_copy, below_right_cols_copy) :
            InImage(f, c) /\ InImage(f, <<c[1] - d, c[2]>>)

\* the fold that finds min_index; indices count from 0 as in the source
RECURSIVE FoldMinIndex(_, _, _)
FoldMinIndex(crits, idx, min_idx) ==
    IF idx >= Len(crits) THEN min_idx
    ELSE FoldMinIndex(crits, idx + 1,
                      IF crits[idx + 1] < crits[min_idx + 1] THEN idx ELSE min_idx)

MinIndex(crits) == FoldMinIndex(crits, 0, 0)

\* "If on the outer edge of the criterion"
OnOuterEdge(crits, min_index) ==
    min_index = 0 \/ min_index = Len(crits) - 1 \/ Len(crits) < 3

\* Denom as the fall from the left neighbour alone
DenomLeftSlope(c_left, c_center, c_right) == c_left - c_center

\* Denom taken from the neighbour with the smaller criterion
DenomSmallerFall(c_left, c_center, c_right) ==
    IF c_left > c_right THEN 2 * (c_right - c_center) ELSE 2 * (c_left - c_center)

Denom(c_left, c_center, c_right) ==
    IF c_left > c_right THEN 2 * (c_left - c_center) ELSE 2 * (c_right - c_center)

\* (c_left - c_right) / denom
SubPixelOffset(crits, min_index) ==
    LET c_left == crits[min_index]
        c_right == crits[min_index + 2]
    IN  <<c_left - c_right, Denom(c_left, crits[min_index + 1], c_right)>>

\* DispVal with the selected candidate counted from 1
DispValFromOne(min_dyn, crits, min_index) ==
    IF OnOuterEdge(crits, min_index)
    THEN FromInt(min_dyn + min_index + 1)
    ELSE LET off == SubPixelOffset(crits, min_index)
         IN  Rat((min_dyn + min_index + 1) * off[2] + off[1], off[2])

\* disp_val
DispVal(min_dyn, crits, min_index) ==
    IF OnOuterEdge(crits, min_index)
    THEN FromInt(min_dyn + min_index)
    ELSE LET off == SubPixelOffset(crits, min_index)
         IN  Rat((min_dyn + min_index) * off[2] + off[1], off[2])

\* if disp_val > max { max = disp_val } else if disp_val < min { min = disp_val }
Track(disp_val, lo, hi) ==
    IF RLess(hi, disp_val) THEN [min |-> lo, max |-> disp_val]
    ELSE IF RLess(disp_val, lo) THEN [min |-> disp_val, max |-> hi]
    ELSE [min |-> lo, max |-> hi]

----------------------------------------------------------------------------
(* The range update that follows a row *)

NextMaxDyn(params, max_row) ==
    LET m == Ceil(max_row) + params.dyn_disparity_threshold
    IN  IF m > params.max_disparity THEN params.max_disparity ELSE m

NextMinDyn(params, min_row) ==
    LET m0 == Floor(min_row) - params.dyn_disparity_threshold
        m1 == IF m0 < 0 THEN 0 ELSE m0
    IN  IF m1 < params.min_disparity THEN params.min_disparity ELSE m1

----------------------------------------------------------------------------
(* Inputs *)

\* a texture that slants by one column per row, or one of vertical stripes
Images(steps) == [texture : 0 .. MaxTexture, step : steps]

Frames ==
    {[width |-> ImgW, height |-> ImgH, left |-> p, right |-> q] :
        p \in Images({1}), q \in Images({0, 1})}

\* the odd window sizes that fit the image
WindowSizes == {1, 3}

AllParams ==
    [min_disparity : 0 .. MaxDisp,
     max_disparity : 0 .. MaxDisp,
     dyn_disparity_threshold : 0 .. MaxThr,
     correlation_window_size :
        (WindowSizes \cup {0, 2 * ImgW + 1}) \X (WindowSizes \cup {0, 2 * ImgH + 1})]

\* the three ways spec 4.4 names in which a configuration is malformed
DisparityMalformed(params) == params.min_disparity >= params.max_disparity

WindowZeroSized(params) ==
    params.correlation_window_size[1] = 0 \/ params.correlation_window_size[2] = 0

WindowLargerThanImage(params, f) ==
    \/ params.correlation_window_size[1] > f.width
    \/ params.correlation_window_size[2] > f.height

\* spec 3 and 4.4: min_disparity < max_disparity, an odd window no larger than the image
Valid(params, f) ==
    /\ ~DisparityMalformed(params)
    /\ ~WindowZeroSized(params)
    /\ ~WindowLargerThanImage(params, f)

\* malformed in exactly one of the three ways
Malformed(params, f) ==
    \/ DisparityMalformed(params)
          /\ ~WindowZeroSized(params) /\ ~WindowLargerThanImage(params, f)
    \/ WindowZeroSized(params)
          /\ ~DisparityMalformed(params) /\ ~WindowLargerThanImage(params, f)
    \/ WindowLargerThanImage(params, f)
          /\ ~DisparityMalformed(params) /\ ~WindowZeroSized(params)

----------------------------------------------------------------------------
(* State *)

\* DisparityMap::new: GrayFloatImage::new gives every cell the default 0.0
DisparityMapNew(width, height) ==
    [data |-> [c \in (0 .. width - 1) \X (0 .. height - 1) |-> FromInt(0)],
     min_disp |-> None,
     max_disp |-> None]

NoPixel ==
    [x |-> -1, y |-> -1, min_dyn |-> 0, max_dyn |-> 0, crits |-> <<>>,
     fast |-> {}, below_row |-> -1, min_index |-> 0, refined |-> FALSE,
     disp_val |-> FromInt(0)]

\* before compute is called its locals do not exist yet
InitWith(params, f) ==
    /\ self = New(params)
    /\ frame = f
    /\ pc = "begin"
    /\ disp_map = DisparityMapNew(0, 0)
    /\ written = {}
    /\ min_dyn_disp = 0
    /\ max_dyn_disp = 0
    /\ min_dyn_disp_history = <<>>
    /\ max_dyn_disp_history = <<>>
    /\ min_disp = FromInt(0)
    /\ max_disp = FromInt(0)
    /\ below_right_col_crits = <<>>
    /\ below_stored_row = <<>>
    /\ y = 0
    /\ x = 0
    /\ min_disp_this_row = FromInt(0)
    /\ max_disp_this_row = FromInt(0)
    /\ left_crits = <<>>
    /\ pixel = NoPixel

\* an engine with a valid configuration, about to compute one frame
Init == \E params \in AllParams, f \in Frames : Valid(params, f) /\ InitWith(params, f)

\* an engine with a malformed configuration, about to compute one frame
InitMalformed ==
    \E params \in AllParams, f \in Frames : Malformed(params, f) /\ InitWith(params, f)

----------------------------------------------------------------------------
(* compute *)

WinW == self.params.correlation_window_size[1]

WinH == self.params.correlation_window_size[2]

\* the rows swept, last to first: window height .. height - window height
RowRange(m, f) ==
    Range(m.params.correlation_window_size[2],
          f.height - m.params.correlation_window_size[2])

\* ColRange with the half width of the window as the left margin
ColRangeHalfWindow(m, f, max_dyn) ==
    Range(SemiExtent(m.params.correlation_window_size[1]) + max_dyn,
          f.width - m.params.correlation_window_size[1])

\* ColRange without the search range in the left margin
ColRangeWindowOnly(m, f, max_dyn) ==
    Range(m.params.correlation_window_size[1],
          f.width - m.params.correlation_window_size[1])

\* the columns swept in a row: window width + max_dyn_disp .. width - window width
ColRange(m, f, max_dyn) ==
    Range(m.params.correlation_window_size[1] + max_dyn,
          f.width - m.params.correlation_window_size[1])

\* vec![None; max_disparity], indexed from 0
NoCrits == [d \in 0 .. self.params.max_disparity - 1 |-> None]

\* Lines 168-206: the locals, then the first row of the reversed row range.
\* frame.height() - window height below zero is a panic.
ComputeBegin ==
    /\ pc = "begin"
    /\ disp_map' = DisparityMapNew(frame.width, frame.height)
    /\ min_dyn_disp' = self.params.min_disparity
    /\ max_dyn_disp' = self.params.max_disparity
    /\ min_dyn_disp_history' = [r \in 0 .. frame.height - 1 |-> 0]
    /\ max_dyn_disp_history' = [r \in 0 .. frame.height - 1 |-> 0]
    /\ min_disp' = FromInt(self.params.max_disparity)
    /\ max_disp' = FromInt(self.params.min_disparity)
    /\ below_right_col_crits' = [c \in 0 .. frame.width - 1 |-> NoCrits]
    /\ below_stored_row' = [c \in 0 .. frame.width - 1 |-> -1]
    /\ IF frame.height < WinH
       THEN pc' = "panicked" /\ UNCHANGED y
       ELSE IF RangeLen(RowRange(self, frame)) > 0
            THEN pc' = "row" /\ y' = RowRange(self, frame).end - 1
            ELSE pc' = "finish" /\ UNCHANGED y
    /\ UNCHANGED <<self, frame, written, x, min_disp_this_row, max_disp_this_row,
                   left_crits, pixel>>

\* Lines 208-227: the head of the row loop's body, then the first column.
\* frame.width() - window width below zero is a panic.
RowBegin ==
    /\ pc = "row"
    /\ min_dyn_disp_history' = [min_dyn_disp_history EXCEPT ![y] = min_dyn_disp]
    /\ max_dyn_disp_history' = [max_dyn_disp_history EXCEPT ![y] = max_dyn_disp]
    /\ min_disp_this_row' = FromInt(self.params.max_disparity)
    /\ max_disp_this_row' = FromInt(self.params.min_disparity)
    /\ left_crits' = NoCrits
    /\ IF frame.width < WinW
       THEN pc' = "panicked" /\ UNCHANGED x
       ELSE /\ x' = ColRange(self, frame, max_dyn_disp).start
            /\ pc' = IF x' < ColRange(self, frame, max_dyn_disp).end
                     THEN "col" ELSE "rowend"
    /\ UNCHANGED <<self, frame, disp_map, written, min_dyn_disp, max_dyn_disp,
                   min_disp, max_disp, below_right_col_crits, below_stored_row,
                   y, pixel>>

\* Lines 228-341: one pixel.  max_dyn_disp - min_dyn_disp below zero is a
\* panic, and so is a read outside an image.
\* tripple, crits, min_index and disp_val are the locals of the body, each
\* bound to its one value.
Pixel ==
    /\ pc = "col"
    /\ IF \/ max_dyn_disp < min_dyn_disp
          \/ ~ReadsInside(self, frame, x, y, min_dyn_disp, max_dyn_disp,
                          left_crits, below_right_col_crits[x])
       THEN /\ pc' = "panicked"
            /\ below_right_col_crits' =
                  [below_right_col_crits EXCEPT ![x] = NoCrits]
            /\ left_crits' = NoCrits
            /\ UNCHANGED <<disp_map, written, min_disp, max_disp, x,
                           below_stored_row, min_disp_this_row,
                           max_disp_this_row, pixel>>
       ELSE \E tripple \in {[d \in min_dyn_disp .. max_dyn_disp - 1 |->
                               CritFor(self, frame, x, y, d,
                                       left_crits, below_right_col_crits[x])]} :
            \E crits \in {[k \in 1 .. max_dyn_disp - min_dyn_disp |->
                             tripple[min_dyn_disp + k - 1].total]} :
            \E min_index \in {MinIndex(crits)} :
            \E disp_val \in {DispVal(min_dyn_disp, crits, min_index)} :
            LET ds == min_dyn_disp .. max_dyn_disp - 1
                row == Track(disp_val, min_disp_this_row, max_disp_this_row)
                map == Track(disp_val, min_disp, max_disp)
            IN  /\ left_crits' =
                      [d \in DOMAIN NoCrits |->
                         IF d \in ds THEN Some(tripple[d]) ELSE None]
                /\ below_right_col_crits' =
                      [below_right_col_crits EXCEPT ![x] =
                         [d \in DOMAIN NoCrits |->
                            IF d \in ds THEN Some(tripple[d].right_col) ELSE None]]
                /\ below_stored_row' =
                      IF ds = {} THEN below_stored_row
                      ELSE [below_stored_row EXCEPT ![x] = y]
                /\ disp_map' = [disp_map EXCEPT !.data[<<x, y>>] = disp_val]
                /\ written' = written \cup {<<x, y>>}
                /\ min_disp_this_row' = row.min
                /\ max_disp_this_row' = row.max
                /\ min_disp' = map.min
                /\ max_disp' = map.max
                /\ pixel' =
                      [x |-> x, y |-> y,
                       min_dyn |-> min_dyn_disp, max_dyn |-> max_dyn_disp,
                       crits |-> crits,
                       fast |-> {d \in ds :
                                   ~UseSlow(left_crits, below_right_col_crits[x], d)},
                       below_row |-> below_stored_row[x],
                       min_index |-> min_index,
                       refined |-> ~OnOuterEdge(crits, min_index),
                       disp_val |-> disp_val]
                /\ x' = x + 1
                /\ pc' = IF x' < ColRange(self, frame, max_dyn_disp).end
                         THEN "col" ELSE "rowend"
    /\ UNCHANGED <<self, frame, min_dyn_disp, max_dyn_disp, min_dyn_disp_history,
                   max_dyn_disp_history, y>>

\* Lines 345-367, then the next row of the reversed row range.
RowEnd ==
    /\ pc = "rowend"
    /\ max_dyn_disp' = NextMaxDyn(self.params, max_disp_this_row)
    /\ min_dyn_disp' = NextMinDyn(self.params, min_disp_this_row)
    /\ IF y > RowRange(self, frame).start
       THEN pc' = "row" /\ y' = y - 1
       ELSE pc' = "finish" /\ UNCHANGED y
    /\ UNCHANGED <<self, frame, disp_map, written, min_dyn_disp_history,
                   max_dyn_disp_history, min_disp, max_disp, below_right_col_crits,
                   below_stored_row, x, min_disp_this_row, max_disp_this_row,
                   left_crits, pixel>>

\* Lines 372-374 and 435: the statistics of the map, and Ok(disp_map).
Finish ==
    /\ pc = "finish"
    /\ disp_map' = [disp_map EXCEPT !.min_disp = Some(min_disp),
                                    !.max_disp = Some(max_disp)]
    /\ pc' = "done"
    /\ UNCHANGED <<self, frame, written, min_dyn_disp, max_dyn_disp,
                   min_dyn_disp_history, max_dyn_disp_history, min_disp, max_disp,
                   below_right_col_crits, below_stored_row, y, x,
                   min_disp_this_row, max_disp_this_row, left_crits, pixel>>

Next == ComputeBegin \/ RowBegin \/ Pixel \/ RowEnd \/ Finish

Spec == Init /\ [][Next]_vars

SpecMalformed == InitMalformed /\ [][Next]_vars

----------------------------------------------------------------------------
(* Properties *)

\* the value stored at a written cell
Stored(c) == disp_map.data[c]

\* the candidate criterion recorded for disparity d at the pixel processed last
PixelCrit(d) == pixel.crits[d - pixel.min_dyn + 1]

\* a pixel has been processed
Processed == pixel.y >= 0

\* m is the least, respectively the greatest, value written to the map
IsMinWritten(m) ==
    /\ \E c \in written : Stored(c) = m
    /\ \A c \in written : RLeq(m, Stored(c))

IsMaxWritten(m) ==
    /\ \E c \in written : Stored(c) = m
    /\ \A c \in written : RLeq(Stored(c), m)

\* C1: every total that get_criterion_fast returned at the pixel processed last
\* equals the total get_criterion returns for the same (x, y, d).
C1_FastTotalEqualsFullTotal ==
    \A d \in pixel.fast :
        PixelCrit(d) = get_criterion(self, frame, pixel.x, pixel.y, d).total

\* C2: once compute has set the search range, and after every update of it,
\* min_disparity <= min_dyn_disp <= max_dyn_disp <= max_disparity.
C2_DynamicRangeOrdered ==
    pc # "begin" =>
        /\ self.params.min_disparity <= min_dyn_disp
        /\ min_dyn_disp <= max_dyn_disp
        /\ max_dyn_disp <= self.params.max_disparity

\* C3: every value written to the map lies in [min_disparity, max_disparity).
C3_WrittenInConfiguredRange ==
    \A c \in written :
        /\ RLeq(FromInt(self.params.min_disparity), Stored(c))
        /\ RLess(Stored(c), FromInt(self.params.max_disparity))

\* C3 witness: the sweep has ended with an integer value and a refined value
\* (a proper fraction) in the map.
C3_Witness ==
    /\ pc = "done"
    /\ \E c \in written : Stored(c)[2] # 1
    /\ \E c \in written : Stored(c)[2] = 1

\* C4: every value written at (x, y) lies in the search range
\* [min_dyn_disp, max_dyn_disp) that was active while row y was swept.
C4_WrittenInActiveRange ==
    \A c \in written :
        /\ RLeq(FromInt(min_dyn_disp_history[c[2]]), Stored(c))
        /\ RLess(Stored(c), FromInt(max_dyn_disp_history[c[2]]))

\* C5: with identical images and min_disparity = 0, the candidate chosen at
\* every visited pixel is d = 0 and the value written is 0.
C5_IdenticalImagesGiveZero ==
    (frame.left = frame.right /\ self.params.min_disparity = 0 /\ Processed) =>
        /\ pixel.min_dyn + pixel.min_index = 0
        /\ pixel.disp_val = FromInt(0)
        /\ \A c \in written : Stored(c) = FromInt(0)

\* the border of C6 as the claim states it: the left margin is
\* window_width + max_disparity in every row
InStatedBorder(c) ==
    \/ c[2] < WinH
    \/ c[2] >= frame.height - WinH
    \/ c[1] >= frame.width - WinW
    \/ c[1] < WinW + self.params.max_disparity

\* the border the sweep leaves: the left margin of a row is window_width plus
\* the max_dyn_disp that was active while that row was swept
InSweptBorder(c) ==
    \/ c[2] < WinH
    \/ c[2] >= frame.height - WinH
    \/ c[1] >= frame.width - WinW
    \/ c[1] < WinW + max_dyn_disp_history[c[2]]

\* C6 as stated: after compute no cell of the stated border has been written,
\* and each still holds the default value.
C6_StatedBorderUntouched ==
    pc = "done" =>
        \A c \in Cells :
            InStatedBorder(c) => (c \notin written /\ Stored(c) = FromInt(0))

\* C6 amended: after compute no cell whose row is within window_height of the
\* top or bottom edge, whose column is within window_width of the right edge,
\* or whose column is less than window_width + the max_dyn_disp active for its
\* row has been written; each such cell still holds the default value.
C6_SweptBorderUntouched ==
    pc = "done" =>
        \A c \in Cells :
            InSweptBorder(c) => (c \notin written /\ Stored(c) = FromInt(0))

\* C6 witness: compute has returned a map in which a cell left of
\* window_width + max_disparity is written, and in the same row a cell right
\* of the window margin is kept unwritten by that row's max_dyn_disp.
C6_Witness ==
    /\ pc = "done"
    /\ \E c \in written :
          /\ c[1] < WinW + self.params.max_disparity
          /\ \E k \in Cells :
                /\ k[2] = c[2]
                /\ WinW <= k[1]
                /\ k[1] < WinW + max_dyn_disp_history[c[2]]
                /\ k \notin written

\* C7: whenever the value written was refined, it differs from the selected
\* integer candidate min_dyn_disp + min_index by at most 1.
C7_RefinementWithinOne ==
    pixel.refined =>
        RLeq(RAbs(RSub(pixel.disp_val, FromInt(pixel.min_dyn + pixel.min_index))),
             FromInt(1))

\* C7 witness: a refined value that is not the integer candidate itself.
C7_Witness ==
    /\ pixel.refined
    /\ pixel.disp_val # FromInt(pixel.min_dyn + pixel.min_index)
    /\ Stored(<<pixel.x, pixel.y>>) = pixel.disp_val

\* C8: when compute returns with at least one cell written, min_disp is the
\* least and max_disp the greatest value written.
C8_MapStatisticsAreMinMax ==
    (pc = "done" /\ written # {}) =>
        /\ IsMinWritten(Unwrap(disp_map.min_disp))
        /\ IsMaxWritten(Unwrap(disp_map.max_disp))

\* C9: with a malformed configuration no pixel is evaluated and no cell of
\* the map is written.
C9_MalformedIsRejected ==
    ~Valid(self.params, frame) => (written = {} /\ ~Processed)

\* C10: with a valid configuration compute never aborts.
C10_NeverAborts ==
    Valid(self.params, frame) => pc # "panicked"

\* C11: whenever a candidate was evaluated in fast mode at (x, y), the
\* below-cache entries consumed for column x were stored while row y + 1 was
\* swept, never during an earlier row.
C11_BelowCacheFromRowBelow ==
    (Processed /\ pixel.fast # {}) => pixel.below_row = pixel.y + 1

\* the cells written on the row being swept
RowWritten == {c \in written : c[2] = y}

\* C12: at the end of every row in which a pixel was visited, min_disp_this_row
\* is the least and max_disp_this_row the greatest value written on that row.
C12_RowTrackersAreMinMax ==
    (pc = "rowend" /\ RowWritten # {}) =>
        /\ \E c \in RowWritten : Stored(c) = min_disp_this_row
        /\ \A c \in RowWritten : RLeq(min_disp_this_row, Stored(c))
        /\ \E c \in RowWritten : Stored(c) = max_disp_this_row
        /\ \A c \in RowWritten : RLeq(Stored(c), max_disp_this_row)

\* the sum of |left - right| over window column i at the pixel processed last
WindowColumnSum(i, d) ==
    LET yr == self.corr_window_y_range
    IN  SumSeq([k \in 1 .. RangeLen(yr) |->
                  AbsDiff(frame, pixel.x + i, pixel.y + yr.start + (k - 1), d)])

\* the sum over the whole window
WindowSum(d) ==
    LET xr == self.corr_window_x_range
    IN  SumSeq([k \in 1 .. RangeLen(xr) |-> WindowColumnSum(xr.start + (k - 1), d)])

\* C13: for every candidate evaluated in full mode at the pixel processed last,
\* get_criterion returns total = the sum over the whole window, left_col = the
\* sum over the leftmost window column and right_col = the sum over the
\* rightmost window column.
C13_FullModeTripple ==
    \A d \in (pixel.min_dyn .. pixel.max_dyn - 1) \ pixel.fast :
        LET t == get_criterion(self, frame, pixel.x, pixel.y, d)
        IN  /\ t.total = WindowSum(d)
            /\ t.left_col = WindowColumnSum(self.corr_window_x_range.start, d)
            /\ t.right_col = WindowColumnSum(self.corr_window_x_range.end - 1, d)

\* denom as compute derives it from the criterions of the pixel processed last
PixelDenom ==
    Denom(pixel.crits[pixel.min_index], pixel.crits[pixel.min_index + 1],
          pixel.crits[pixel.min_index + 2])

\* C14: whenever the refinement branch was taken at the pixel processed last,
\* denom is not zero.
C14_DenomNonZero == pixel.refined => PixelDenom # 0

\* C14 witness: the refinement branch was taken where the selected candidate
\* and its right neighbour have equal criterions.
C14_Witness ==
    /\ pixel.refined
    /\ pixel.crits[pixel.min_index + 1] = pixel.crits[pixel.min_index + 2]
    /\ Stored(<<pixel.x, pixel.y>>) = pixel.disp_val

\* the candidates of the pixel compute is about to evaluate
Candidates == min_dyn_disp .. max_dyn_disp - 1

\* the left-image coordinates compute is about to read for candidate d
NextReads(d) == ReadsFor(self, x, y, d, left_crits, below_right_col_crits[x])

\* C15: every pixel read of the pixel compute is about to evaluate, through
\* get_criterion or get_criterion_fast, addresses a coordinate inside the
\* image: 0 <= column < width and 0 <= row < height in the left image, and a
\* right-image column that is not negative.
C15_ReadsInsideImage ==
    pc = "col" =>
        \A d \in Candidates :
            \A c \in NextReads(d) : InImage(frame, c) /\ c[1] - d >= 0

\* C15 witness: a pixel of a 3-wide window, next to the first of its row, is
\* about to be evaluated with one candidate in fast mode and another in full
\* mode.
C15_Witness ==
    /\ pc = "col"
    /\ WinW = 3
    /\ x = ColRange(self, frame, max_dyn_disp).start + 1
    /\ \E d \in Candidates : NextReads(d) = FastReads(self, x, y)
    /\ \E d \in Candidates : NextReads(d) = CritReads(self, x, y)

====
